---- MODULE Spec2Model ----
(***************************************************************************)
(* A model of the Endee Python SDK client (python-sdk/endee_client).      *)
(*                                                                         *)
(* One EndeeClient instance, its requests.Session, and a caller that       *)
(* invokes the public methods one after the other.  The server and the     *)
(* transport are the environment: every invocation draws the response (or  *)
(* the transport failure) it meets from a small set.                       *)
(*                                                                         *)
(* Strings that end up in a URL are sequences of tokens, where each of the *)
(* characters "/", "?", "#" and " " is a token of its own; concatenation   *)
(* is \o.  Python values that travel in a JSON body are tagged records     *)
(* [py |-> <type>, v |-> <value>].                                         *)
(***************************************************************************)
EXTENDS Integers, Sequences, FiniteSets, TLC

VARIABLES
    ctor,             \* the arguments EndeeClient(...) was constructed with
    base_url,         \* self.base_url
    auth_token,       \* self.auth_token
    timeout,          \* self.timeout
    session_headers,  \* self._session.headers (the Authorization entry)
    close_calls,      \* how many times self._session.close() has run
    close_outcome,    \* how the last close() ended
    scope,            \* "plain"; "with": inside a `with EndeeClient(...)` block; "left": after it
    with_exit,        \* how the `with` statement ended
    ncalls,           \* public method invocations so far
    nrequests,        \* calls of self._session.request so far
    pc,               \* "idle": the caller is between calls; "returned": a call has just ended
    call,             \* the invocation that has just ended: [op, args]
    request,          \* what that invocation handed to self._session.request
    response,         \* what the transport answered
    outcome           \* how the invocation ended: a return value or an exception

vars == <<ctor, base_url, auth_token, timeout, session_headers, close_calls,
          close_outcome, scope, with_exit, ncalls, nrequests, pc, call, request,
          response, outcome>>

config == <<ctor, base_url, auth_token, timeout, session_headers>>

frame == <<call, request, response, outcome>>

\* The session's release and the `with` statement around the client.
lifetime == <<close_calls, close_outcome, scope, with_exit>>

\* ------------------------------------------------------------------ bounds

\* The caller makes at most MaxCalls method invocations.
MaxCalls == 2

\* The caller closes the client at most MaxClose times.
MaxClose == 2

\* ----------------------------------------------------------- Python values

PyNone == [py |-> "None"]

\* An optional argument the caller left out of the call.
NotGiven == [py |-> "NotGiven"]

PyInt(n) == [py |-> "int", v |-> n]

PyStr(s) == [py |-> "str", v |-> s]

PyBool(b) == [py |-> "bool", v |-> b]

PyList(s) == [py |-> "list", v |-> s]

PyDict(f) == [py |-> "dict", v |-> f]

EmptyDict == PyDict(<<>>)

\* Python's truth value of an object, as `if x:` tests it.
Truthy(x) ==
    CASE x.py = "None" -> FALSE
      [] x.py = "int"  -> x.v # 0
      [] x.py = "bool" -> x.v
      [] x.py = "str"  -> x.v # ""
      [] x.py = "list" -> Len(x.v) # 0
      [] x.py = "dict" -> DOMAIN x.v # {}

\* The value a parameter is bound to: the argument, or the signature's default.
Bind(arg, default) == IF arg = NotGiven THEN default ELSE arg

\* d[key] = value on a dict.
DictSet(d, key, value) == PyDict((key :> value) @@ d.v)

\* --------------------------------------------------------------- constants

DefaultTimeout == 30

DefaultK == 10

DefaultEfConstruction == 200

DefaultM == 16

DefaultBaseUrl == <<"http:", "/", "/", "localhost:8080">>

\* ------------------------------------------------------------------ inputs

\* base_url arguments: the default, and one that ends with two slashes.
BaseUrls ==
    { DefaultBaseUrl,
      <<"http:", "/", "/", "endee:8080", "/", "/">> }

\* auth_token arguments: none, the empty string, a token.
AuthTokens == { PyNone, PyStr(""), PyStr("secret-token") }

Timeouts == { DefaultTimeout, 5 }

\* Index names, vector ids and backup names: a plain one, and one holding "/", "?".
Names ==
    { <<"idx">>,
      <<"a", "/", "b", "?", "c">> }

\* ---------------------------------------------------------------- __init__

\* str.rstrip('/') : every trailing "/" is removed.
RECURSIVE rstrip(_)
rstrip(s) ==
    IF Len(s) > 0 /\ s[Len(s)] = "/" THEN rstrip(SubSeq(s, 1, Len(s) - 1)) ELSE s

\* A slip: the token is sent as a bearer credential.
InitSessionHeaders_Bearer(token) ==
    IF Truthy(token) THEN [h \in {"Authorization"} |-> "Bearer " \o token.v] ELSE <<>>

\* The session's headers after __init__ : Authorization only for a truthy token.
InitSessionHeaders(token) ==
    IF Truthy(token) THEN [h \in {"Authorization"} |-> token.v] ELSE <<>>

NoCall == [op |-> "none"]

NoRequest == [method |-> "none"]

NoResponse == [kind |-> "none"]

NoOutcome == [kind |-> "none"]

Init ==
    /\ ctor \in [base_url : BaseUrls, auth_token : AuthTokens, timeout : Timeouts]
    /\ base_url = rstrip(ctor.base_url)
    /\ auth_token = ctor.auth_token
    /\ timeout = ctor.timeout
    /\ session_headers = InitSessionHeaders(ctor.auth_token)
    /\ close_calls = 0
    /\ close_outcome = NoOutcome
    /\ scope = "plain"
    /\ with_exit = NoOutcome
    /\ ncalls = 0
    /\ nrequests = 0
    /\ pc = "idle"
    /\ call = NoCall
    /\ request = NoRequest
    /\ response = NoResponse
    /\ outcome = NoOutcome

\* --------------------------------------------------------------- transport

\* Response bodies (response.text) the server may send.
EmptyText == ""

ErrorObjectText == "{\"error\": \"index not found\"}"

OtherObjectText == "{\"message\": \"boom\"}"

ArrayText == "[]"

ErrorArrayText == "[\"error\"]"

NotJsonText == "<html>Bad Gateway</html>"

Texts ==
    { EmptyText, ErrorObjectText, OtherObjectText, ArrayText, ErrorArrayText,
      NotJsonText }

StatusCodes == { 200, 399, 400, 404 }

\* What self._session.request meets: an HTTP response, or a transport failure
\* raised as a requests.exceptions.RequestException before any response.
Responses ==
    [kind : {"http"}, status_code : StatusCodes, text : Texts]
    \cup
    { [kind |-> "RequestException", exc |-> "ConnectionError",
       desc |-> "Connection refused"],
      [kind |-> "RequestException", exc |-> "Timeout",
       desc |-> "Read timed out"] }

\* json.loads of a body: [ok |-> FALSE] is a decode error, else the parsed value.
JObject(f) == [json |-> "object", members |-> f]

JArray(s) == [json |-> "array", items |-> s]

JString(s) == [json |-> "string", v |-> s]

JsonLoads(text) ==
    CASE text = ErrorObjectText ->
           [ok |-> TRUE, value |-> JObject([k \in {"error"} |-> JString("index not found")])]
      [] text = OtherObjectText ->
           [ok |-> TRUE, value |-> JObject([k \in {"message"} |-> JString("boom")])]
      [] text = ArrayText -> [ok |-> TRUE, value |-> JArray(<<>>)]
      [] text = ErrorArrayText -> [ok |-> TRUE, value |-> JArray(<<JString("error")>>)]
      [] OTHER -> [ok |-> FALSE]

\* `key in data` on a parsed value: membership of a key for a dict, of an item
\* for a list.
PyIn(key, data) ==
    CASE data.json = "object" -> key \in DOMAIN data.members
      [] data.json = "array" ->
           \E i \in DOMAIN data.items :
               data.items[i].json = "string" /\ data.items[i].v = key

\* data[key] : [raised |-> TRUE] is the TypeError a list raises for a str index.
PyGetItem(data, key) ==
    IF data.json = "object"
    THEN [raised |-> FALSE, value |-> data.members[key]]
    ELSE [raised |-> TRUE]

\* A Python str as an exception message: the sequence of its parts.
GenericMessage(status_code) ==
    <<"API request failed with status ", ToString(status_code)>>

\* `response.text or error_msg`
TextOr(text, error_msg) == IF text # "" THEN <<text>> ELSE error_msg

\* error_msg of the status >= 400 branch.
ErrorMessage(resp) ==
    LET error_msg  == GenericMessage(resp.status_code)
        error_data == JsonLoads(resp.text)
    IN  IF ~error_data.ok
        THEN TextOr(resp.text, error_msg)
        ELSE IF PyIn("error", error_data.value)
             THEN LET item == PyGetItem(error_data.value, "error")
                  IN  IF item.raised
                      THEN TextOr(resp.text, error_msg)
                      ELSE <<item.value.v>>
             ELSE error_msg

\* A slip of the comparison: 400 itself passes as a success.
IsErrorStatus_Above400(status_code) == status_code > 400

IsErrorStatus(status_code) == status_code >= 400

EndeeAPIError(message, status_code, response_body) ==
    [kind |-> "EndeeAPIError", message |-> message, status_code |-> status_code,
     response_body |-> response_body]

EndeeConnectionError(desc) ==
    [kind |-> "EndeeConnectionError",
     message |-> <<"Failed to connect to Endee server: ", desc>>]

Return(value) == [kind |-> "return", value |-> value]

\* A slip: response.json() is called on an empty body too.
HandleResponse_AlwaysParse(resp, decode_is_request_exception) ==
    IF IsErrorStatus(resp.status_code)
    THEN EndeeAPIError(ErrorMessage(resp), resp.status_code, resp.text)
    ELSE LET data == JsonLoads(resp.text)
         IN  IF data.ok
             THEN Return(data.value)
             ELSE IF decode_is_request_exception
                  THEN EndeeConnectionError("Expecting value: line 1 column 1 (char 0)")
                  ELSE [kind |-> "JSONDecodeError"]

\* The body of the try block once a response is there, and the except clause
\* for it.  response.json() raises a JSONDecodeError on a body that is no JSON;
\* decode_is_request_exception says whether the installed requests makes that
\* error a RequestException (requests >= 2.27), which the except clause then
\* catches, or a plain ValueError (older ones), which leaves _request as it is.
HandleResponse(resp, decode_is_request_exception) ==
    IF IsErrorStatus(resp.status_code)
    THEN EndeeAPIError(ErrorMessage(resp), resp.status_code, resp.text)
    ELSE IF resp.text # ""
         THEN LET data == JsonLoads(resp.text)
              IN  IF data.ok
                  THEN Return(data.value)
                  ELSE IF decode_is_request_exception
                       THEN EndeeConnectionError("Expecting value: line 1 column 1 (char 0)")
                       ELSE [kind |-> "JSONDecodeError"]
         ELSE Return(JObject(<<>>))

\* A slip: a timeout surfaces as an error kind of its own.
RequestOutcome_TimeoutKind(resp, decode_is_request_exception) ==
    IF resp.kind = "RequestException"
    THEN IF resp.exc = "Timeout"
         THEN [kind |-> "EndeeTimeoutError", message |-> <<resp.desc>>]
         ELSE EndeeConnectionError(resp.desc)
    ELSE HandleResponse(resp, decode_is_request_exception)

\* How _request ends for what the transport answered.
RequestOutcome(resp, decode_is_request_exception) ==
    IF resp.kind = "RequestException"
    THEN EndeeConnectionError(resp.desc)
    ELSE HandleResponse(resp, decode_is_request_exception)

\* The headers of the request sent: the session's, updated with the call's own.
MergeHeaders(session, headers) ==
    IF headers = PyNone THEN session ELSE headers.v @@ session

\* url = f"{self.base_url}{endpoint}"
Url(endpoint) == base_url \o endpoint

\* A slip: the request is sent once more after a transport failure.
_request_Retry(method, endpoint, json_data, params, headers, resp, decode_is_request_exception) ==
    /\ request' = [method |-> method, url |-> Url(endpoint), json |-> json_data,
                   params |-> params, headers |-> MergeHeaders(session_headers, headers),
                   timeout |-> timeout]
    /\ nrequests' = nrequests + (IF resp.kind = "RequestException" THEN 2 ELSE 1)
    /\ response' = resp
    /\ outcome' = RequestOutcome(resp, decode_is_request_exception)

_request(method, endpoint, json_data, params, headers, resp, decode_is_request_exception) ==
    /\ request' = [method |-> method, url |-> Url(endpoint), json |-> json_data,
                   params |-> params, headers |-> MergeHeaders(session_headers, headers),
                   timeout |-> timeout]
    /\ nrequests' = nrequests + 1
    /\ response' = resp
    /\ outcome' = RequestOutcome(resp, decode_is_request_exception)

\* The caller may call a public method when it is between calls; it makes no
\* call on the client once the `with` statement around it is left.
CanInvoke == pc = "idle" /\ ncalls < MaxCalls /\ scope # "left"

\* A slip: a call leaves the session without its headers.
Invoke_ResetsSessionHeaders(op, args) ==
    /\ ncalls' = ncalls + 1
    /\ call' = [op |-> op, args |-> args]
    /\ pc' = "returned"
    /\ session_headers' = <<>>
    /\ UNCHANGED <<ctor, base_url, auth_token, timeout, lifetime>>

\* A public method called by the caller: op(args) runs to its end in one step.
Invoke(op, args) ==
    /\ ncalls' = ncalls + 1
    /\ call' = [op |-> op, args |-> args]
    /\ pc' = "returned"
    /\ UNCHANGED <<config, lifetime>>

ApiV1 == <<"/", "api", "/", "v1">>

\* ------------------------------------------------------- method arguments

Dims == { PyInt(128) }

SpaceTypes == { NotGiven, PyStr("cosine") }

EfConstructions == { NotGiven, PyInt(100) }

Ms == { NotGiven, PyInt(32) }

QuantTypes == { NotGiven, PyStr("scalar") }

EnableSparses == { NotGiven, PyBool(TRUE) }

\* Dense vectors (the coordinates stand for floats).
Vectors == { PyList(<<1, 2>>) }

Ks == { NotGiven, PyInt(5) }

EfSearches == { NotGiven, PyInt(0), PyInt(50) }

FilterExprs == { NotGiven, PyStr(""), PyStr("category = 'A'") }

SparseVectors == { NotGiven, EmptyDict, PyDict([token \in {7} |-> 3]) }

\* Lists of vector records (insert_vectors) and of update operations (update_filters).
RecordLists == { PyList(<<>>), PyList(<<"rec1">>) }

\* Lists of vector ids.
IdLists == { PyList(<<>>), PyList(<<"vec1", "vec2">>) }

\* ------------------------------------------------------------ the methods

health_check ==
    /\ CanInvoke
    /\ \E resp \in Responses, d \in BOOLEAN :
        /\ Invoke("health_check", <<>>)
        /\ _request("GET", ApiV1 \o <<"/", "health">>, PyNone, PyNone, PyNone, resp, d)

get_stats ==
    /\ CanInvoke
    /\ \E resp \in Responses, d \in BOOLEAN :
        /\ Invoke("get_stats", <<>>)
        /\ _request("GET", ApiV1 \o <<"/", "stats">>, PyNone, PyNone, PyNone, resp, d)

\* A slip: quant_type is left out of the body when the caller did not give it.
CreateIndexData_NoQuant(index_name, dim, space_type, ef_construction, m, quant_type, enable_sparse) ==
    LET data == [index_name      |-> PyStr(index_name),
                 dim             |-> dim,
                 space_type      |-> Bind(space_type, PyStr("l2")),
                 ef_construction |-> Bind(ef_construction, PyInt(DefaultEfConstruction)),
                 m               |-> Bind(m, PyInt(DefaultM)),
                 enable_sparse   |-> Bind(enable_sparse, PyBool(FALSE))]
    IN  IF quant_type = NotGiven
        THEN PyDict(data)
        ELSE DictSet(PyDict(data), "quant_type", quant_type)

\* data of create_index: the seven fields, each the bound parameter.
CreateIndexData(index_name, dim, space_type, ef_construction, m, quant_type, enable_sparse) ==
    PyDict([index_name      |-> PyStr(index_name),
            dim             |-> dim,
            space_type      |-> Bind(space_type, PyStr("l2")),
            ef_construction |-> Bind(ef_construction, PyInt(DefaultEfConstruction)),
            m               |-> Bind(m, PyInt(DefaultM)),
            quant_type      |-> Bind(quant_type, PyStr("none")),
            enable_sparse   |-> Bind(enable_sparse, PyBool(FALSE))])

create_index ==
    /\ CanInvoke
    /\ \E index_name \in Names, dim \in Dims, space_type \in SpaceTypes,
       ef_construction \in EfConstructions, m \in Ms, quant_type \in QuantTypes,
       enable_sparse \in EnableSparses, resp \in Responses, d \in BOOLEAN :
        /\ Invoke("create_index",
                  [index_name |-> index_name, dim |-> dim, space_type |-> space_type,
                   ef_construction |-> ef_construction, m |-> m,
                   quant_type |-> quant_type, enable_sparse |-> enable_sparse])
        /\ _request("POST", ApiV1 \o <<"/", "index", "/", "create">>,
                    CreateIndexData(index_name, dim, space_type, ef_construction, m,
                                    quant_type, enable_sparse),
                    PyNone, PyNone, resp, d)

list_indexes ==
    /\ CanInvoke
    /\ \E resp \in Responses, d \in BOOLEAN :
        /\ Invoke("list_indexes", <<>>)
        /\ _request("GET", ApiV1 \o <<"/", "index", "/", "list">>, PyNone, PyNone, PyNone,
                    resp, d)

\* f'/api/v1/index/{index_name}' : the name is put into the path as it is.
IndexPath(index_name) == ApiV1 \o <<"/", "index", "/">> \o index_name

get_index_info ==
    /\ CanInvoke
    /\ \E index_name \in Names, resp \in Responses, d \in BOOLEAN :
        /\ Invoke("get_index_info", [index_name |-> index_name])
        /\ _request("GET", IndexPath(index_name) \o <<"/", "info">>, PyNone, PyNone,
                    PyNone, resp, d)

delete_index ==
    /\ CanInvoke
    /\ \E index_name \in Names, resp \in Responses, d \in BOOLEAN :
        /\ Invoke("delete_index", [index_name |-> index_name])
        /\ _request("DELETE", IndexPath(index_name) \o <<"/", "delete">>, PyNone, PyNone,
                    PyNone, resp, d)

insert_vectors ==
    /\ CanInvoke
    /\ \E index_name \in Names, vectors \in RecordLists, resp \in Responses, d \in BOOLEAN :
        /\ Invoke("insert_vectors", [index_name |-> index_name, vectors |-> vectors])
        /\ _request("POST", IndexPath(index_name) \o <<"/", "vector", "/", "insert">>,
                    vectors, PyNone, PyNone, resp, d)

\* A slip: the optional keys are always put into the body.
SearchData_AllKeys(vector, k, ef_search, filter_expr, sparse_vector) ==
    PyDict([vector        |-> vector,
            k             |-> Bind(k, PyInt(DefaultK)),
            ef_search     |-> Bind(ef_search, PyNone),
            filter        |-> Bind(filter_expr, PyNone),
            sparse_vector |-> Bind(sparse_vector, PyNone)])

\* data of search_vectors: vector and k, and each optional key the method adds.
SearchData(vector, k, ef_search, filter_expr, sparse_vector) ==
    LET data0 == PyDict([vector |-> vector, k |-> Bind(k, PyInt(DefaultK))])
        data1 == IF Bind(ef_search, PyNone) # PyNone
                 THEN DictSet(data0, "ef_search", ef_search)
                 ELSE data0
        data2 == IF Truthy(Bind(filter_expr, PyNone))
                 THEN DictSet(data1, "filter", filter_expr)
                 ELSE data1
    IN  IF Truthy(Bind(sparse_vector, PyNone))
        THEN DictSet(data2, "sparse_vector", sparse_vector)
        ELSE data2

search_vectors ==
    /\ CanInvoke
    /\ \E index_name \in Names, vector \in Vectors, k \in Ks, ef_search \in EfSearches,
       filter_expr \in FilterExprs, sparse_vector \in SparseVectors,
       resp \in Responses, d \in BOOLEAN :
        /\ Invoke("search_vectors",
                  [index_name |-> index_name, vector |-> vector, k |-> k,
                   ef_search |-> ef_search, filter_expr |-> filter_expr,
                   sparse_vector |-> sparse_vector])
        /\ _request("POST", IndexPath(index_name) \o <<"/", "search">>,
                    SearchData(vector, k, ef_search, filter_expr, sparse_vector),
                    PyNone, PyNone, resp, d)

\* data = {"ids": vector_ids}
IdsData(vector_ids) == PyDict([ids |-> vector_ids])

get_vector ==
    /\ CanInvoke
    /\ \E index_name \in Names, vector_ids \in IdLists, resp \in Responses, d \in BOOLEAN :
        /\ Invoke("get_vector", [index_name |-> index_name, vector_ids |-> vector_ids])
        /\ _request("POST", IndexPath(index_name) \o <<"/", "vector", "/", "get">>,
                    IdsData(vector_ids), PyNone, PyNone, resp, d)

delete_vector ==
    /\ CanInvoke
    /\ \E index_name \in Names, vector_id \in Names, resp \in Responses, d \in BOOLEAN :
        /\ Invoke("delete_vector", [index_name |-> index_name, vector_id |-> vector_id])
        /\ _request("DELETE",
                    IndexPath(index_name) \o <<"/", "vector", "/">> \o vector_id
                        \o <<"/", "delete">>,
                    PyNone, PyNone, PyNone, resp, d)

delete_vectors ==
    /\ CanInvoke
    /\ \E index_name \in Names, vector_ids \in IdLists, resp \in Responses, d \in BOOLEAN :
        /\ Invoke("delete_vectors", [index_name |-> index_name, vector_ids |-> vector_ids])
        /\ _request("POST", IndexPath(index_name) \o <<"/", "vectors", "/", "delete">>,
                    IdsData(vector_ids), PyNone, PyNone, resp, d)

update_filters ==
    /\ CanInvoke
    /\ \E index_name \in Names, updates \in RecordLists, resp \in Responses, d \in BOOLEAN :
        /\ Invoke("update_filters", [index_name |-> index_name, updates |-> updates])
        /\ _request("POST", IndexPath(index_name) \o <<"/", "filters", "/", "update">>,
                    updates, PyNone, PyNone, resp, d)

create_backup ==
    /\ CanInvoke
    /\ \E index_name \in Names, resp \in Responses, d \in BOOLEAN :
        /\ Invoke("create_backup", [index_name |-> index_name])
        /\ _request("POST", IndexPath(index_name) \o <<"/", "backup">>, PyNone, PyNone,
                    PyNone, resp, d)

list_backups ==
    /\ CanInvoke
    /\ \E resp \in Responses, d \in BOOLEAN :
        /\ Invoke("list_backups", <<>>)
        /\ _request("GET", ApiV1 \o <<"/", "backups">>, PyNone, PyNone, PyNone, resp, d)

\* f'/api/v1/backups/{backup_name}' : the name is put into the path as it is.
BackupPath(backup_name) == ApiV1 \o <<"/", "backups", "/">> \o backup_name

restore_backup ==
    /\ CanInvoke
    /\ \E backup_name \in Names, resp \in Responses, d \in BOOLEAN :
        /\ Invoke("restore_backup", [backup_name |-> backup_name])
        /\ _request("POST", BackupPath(backup_name) \o <<"/", "restore">>, PyNone, PyNone,
                    PyNone, resp, d)

delete_backup ==
    /\ CanInvoke
    /\ \E backup_name \in Names, resp \in Responses, d \in BOOLEAN :
        /\ Invoke("delete_backup", [backup_name |-> backup_name])
        /\ _request("DELETE", BackupPath(backup_name), PyNone, PyNone, PyNone, resp, d)

\* The caller takes the result (or handles the exception) and goes on.
Continue ==
    /\ pc = "returned"
    /\ pc' = "idle"
    /\ call' = NoCall
    /\ request' = NoRequest
    /\ response' = NoResponse
    /\ outcome' = NoOutcome
    /\ UNCHANGED <<config, lifetime, ncalls, nrequests>>

\* The body of close() : self._session.close(), and the method returns None.
\* A closed requests.Session keeps its headers and opens new connections on
\* its next request.
CloseSession ==
    /\ close_calls' = close_calls + 1
    /\ close_outcome' = Return(PyNone)

\* close() called by the caller (outside a `with` block).
close ==
    /\ pc = "idle"
    /\ scope # "with"
    /\ close_calls < MaxClose
    /\ CloseSession
    /\ UNCHANGED <<config, scope, with_exit, ncalls, nrequests, pc, frame>>

\* __enter__ : `with EndeeClient(...) as client:` right after construction.
__enter__ ==
    /\ pc = "idle"
    /\ scope = "plain"
    /\ ncalls = 0
    /\ close_calls = 0
    /\ scope' = "with"
    /\ UNCHANGED <<config, close_calls, close_outcome, with_exit, ncalls, nrequests,
                   pc, frame>>

\* What may leave the block: nothing (PyNone: the block ran to its end), or an
\* exception raised inside it.
BlockExceptions == { PyNone, PyStr("EndeeAPIError"), PyStr("KeyError") }

\* A slip: __exit__ returns True.
ExitReturn_True == PyBool(TRUE)

\* The value __exit__ returns: it has no return statement.
ExitReturn == PyNone

\* How the `with` statement ends: an exception that left the block goes on to
\* the caller unless __exit__ returned a true value.
WithOutcome(exc_val, returned) ==
    IF exc_val # PyNone /\ ~Truthy(returned)
    THEN [kind |-> "propagated", exc |-> exc_val]
    ELSE [kind |-> "completed", exc |-> exc_val]

\* __exit__(exc_type, exc_val, exc_tb) : self.close().
__exit__ ==
    /\ pc = "idle"
    /\ scope = "with"
    /\ close_calls < MaxClose
    /\ \E exc_val \in BlockExceptions :
           with_exit' = WithOutcome(exc_val, ExitReturn)
    /\ CloseSession
    /\ scope' = "left"
    /\ UNCHANGED <<config, ncalls, nrequests, pc, frame>>

Next ==
    \/ health_check
    \/ get_stats
    \/ create_index
    \/ list_indexes
    \/ get_index_info
    \/ delete_index
    \/ insert_vectors
    \/ search_vectors
    \/ get_vector
    \/ delete_vector
    \/ delete_vectors
    \/ update_filters
    \/ create_backup
    \/ list_backups
    \/ restore_backup
    \/ delete_backup
    \/ close
    \/ __enter__
    \/ __exit__
    \/ Continue

Spec == Init /\ [][Next]_vars

\* ------------------------------------------------------------------ claims

Returned == pc = "returned"

GotHttp == Returned /\ response.kind = "http"

\* The body parses as a JSON object that has an "error" member.
HasErrorField(text) ==
    /\ JsonLoads(text).ok
    /\ JsonLoads(text).value.json = "object"
    /\ "error" \in DOMAIN JsonLoads(text).value.members

ErrorField(text) == JsonLoads(text).value.members["error"].v

\* C1: a response with status >= 400 ends every method with EndeeAPIError that
\* carries the status and the raw text, and the "error" field of a JSON object
\* body as its message; a response with status < 400 never ends in EndeeAPIError.
C1_ApiErrorCarriesStatusAndErrorField ==
    GotHttp =>
        /\ response.status_code >= 400 =>
              /\ outcome.kind = "EndeeAPIError"
              /\ outcome.status_code = response.status_code
              /\ outcome.response_body = response.text
              /\ HasErrorField(response.text) =>
                     outcome.message = <<ErrorField(response.text)>>
        /\ response.status_code < 400 => outcome.kind # "EndeeAPIError"

C1_Witness ==
    /\ GotHttp
    /\ call.op = "get_index_info"
    /\ response.status_code = 404
    /\ response.text = ErrorObjectText
    /\ outcome.kind = "EndeeAPIError"
    /\ outcome.status_code = 404
    /\ outcome.message = <<"index not found">>

\* The message the specification gives for a status >= 400 response.
SpecifiedMessage(resp) ==
    IF HasErrorField(resp.text)
    THEN <<ErrorField(resp.text)>>
    ELSE IF resp.text # ""
         THEN <<resp.text>>
         ELSE <<"API request failed with status ", ToString(resp.status_code)>>

\* C2: for a status >= 400 the message is the "error" field if the body parses
\* and has it, otherwise the raw text, and the generic message only when the
\* body is empty.
C2_MessageOrder ==
    (GotHttp /\ response.status_code >= 400) =>
        /\ outcome.kind = "EndeeAPIError"
        /\ outcome.message = SpecifiedMessage(response)

\* C3: a transport failure before any response (refused connection, timeout)
\* ends every method with EndeeConnectionError carrying the failure's
\* description, never with EndeeAPIError or an error kind of its own.
C3_TransportFailureIsConnectionError ==
    (Returned /\ response.kind = "RequestException") =>
        /\ outcome.kind = "EndeeConnectionError"
        /\ outcome.message = <<"Failed to connect to Endee server: ", response.desc>>

C3_Witness ==
    /\ Returned
    /\ call.op = "search_vectors"
    /\ response.kind = "RequestException"
    /\ response.exc = "Timeout"
    /\ outcome.kind = "EndeeConnectionError"

\* C4: closing twice raises nothing, and a method called after close() fails
\* (with EndeeConnectionError or a closed-state error) and hands no request to
\* the session.  close has no failing path, so the formula is about the calls
\* that follow it.
C4_NoRequestAfterClose ==
    (Returned /\ close_calls > 0) =>
        /\ outcome.kind \in {"EndeeConnectionError", "ClosedError"}
        /\ request = NoRequest

\* urllib.parse.quote(s, safe='') on the reserved characters of the model.
Quote(s) ==
    [i \in DOMAIN s |->
        CASE s[i] = "/" -> "%2F"
          [] s[i] = "?" -> "%3F"
          [] s[i] = "#" -> "%23"
          [] s[i] = " " -> "%20"
          [] OTHER -> s[i]]

\* The path the specification's method table gives for a call, its path
\* parameters percent-escaped.
DocumentedPath(c) ==
    LET index == <<"/", "api", "/", "v1", "/", "index", "/">>
        backups == <<"/", "api", "/", "v1", "/", "backups">>
    IN  CASE c.op = "health_check" -> <<"/", "api", "/", "v1", "/", "health">>
          [] c.op = "get_stats" -> <<"/", "api", "/", "v1", "/", "stats">>
          [] c.op = "create_index" -> index \o <<"create">>
          [] c.op = "list_indexes" -> index \o <<"list">>
          [] c.op = "get_index_info" -> index \o Quote(c.args.index_name) \o <<"/", "info">>
          [] c.op = "delete_index" -> index \o Quote(c.args.index_name) \o <<"/", "delete">>
          [] c.op = "insert_vectors" ->
               index \o Quote(c.args.index_name) \o <<"/", "vector", "/", "insert">>
          [] c.op = "search_vectors" ->
               index \o Quote(c.args.index_name) \o <<"/", "search">>
          [] c.op = "get_vector" ->
               index \o Quote(c.args.index_name) \o <<"/", "vector", "/", "get">>
          [] c.op = "delete_vector" ->
               index \o Quote(c.args.index_name) \o <<"/", "vector", "/">>
                     \o Quote(c.args.vector_id) \o <<"/", "delete">>
          [] c.op = "delete_vectors" ->
               index \o Quote(c.args.index_name) \o <<"/", "vectors", "/", "delete">>
          [] c.op = "update_filters" ->
               index \o Quote(c.args.index_name) \o <<"/", "filters", "/", "update">>
          [] c.op = "create_backup" ->
               index \o Quote(c.args.index_name) \o <<"/", "backup">>
          [] c.op = "list_backups" -> backups
          [] c.op = "restore_backup" ->
               backups \o <<"/">> \o Quote(c.args.backup_name) \o <<"/", "restore">>
          [] c.op = "delete_backup" -> backups \o <<"/">> \o Quote(c.args.backup_name)

\* C5: the URL requested is the constructor's base_url without its trailing
\* slashes, followed by the documented path with every path parameter
\* percent-escaped.
C5_UrlIsBasePlusEscapedPath ==
    Returned => request.url = rstrip(ctor.base_url) \o DocumentedPath(call)

HasAuthorization == "Authorization" \in DOMAIN request.headers

\* C6: with a token supplied at construction (auth_token is not None) every
\* request carries Authorization with exactly that token; with none supplied
\* no request carries the header.
C6_SuppliedTokenOnEveryRequest ==
    Returned =>
        IF ctor.auth_token.py # "None"
        THEN HasAuthorization /\ request.headers["Authorization"] = ctor.auth_token.v
        ELSE ~HasAuthorization

\* C6 as amended: a non-empty token is carried, exactly as given, by every
\* request; with no token or the empty string no request carries the header.
C6_NonEmptyTokenOnEveryRequest ==
    Returned =>
        IF ctor.auth_token.py = "str" /\ ctor.auth_token.v # ""
        THEN HasAuthorization /\ request.headers["Authorization"] = ctor.auth_token.v
        ELSE ~HasAuthorization

C6_Witness ==
    /\ Returned
    /\ ncalls = 2
    /\ close_calls = 0
    /\ ctor.auth_token = PyStr("secret-token")
    /\ HasAuthorization
    /\ request.headers["Authorization"] = "secret-token"

\* C7: a response with status < 400 makes the method return {} for an empty
\* body and the parsed value for a non-empty JSON body.
C7_SuccessReturnsParsedBodyOrEmptyObject ==
    (GotHttp /\ response.status_code < 400) =>
        /\ response.text = "" =>
               /\ outcome.kind = "return"
               /\ outcome.value = [json |-> "object", members |-> <<>>]
        /\ (response.text # "" /\ JsonLoads(response.text).ok) =>
               /\ outcome.kind = "return"
               /\ outcome.value = JsonLoads(response.text).value

C7_Witness ==
    /\ GotHttp
    /\ response.status_code = 200
    /\ response.text = ""
    /\ outcome.kind = "return"
    /\ DOMAIN outcome.value.members = {}

SearchOptionalKeys == {"ef_search", "filter", "sparse_vector"}

\* The caller's argument behind an optional key of the search body.
SearchArgument(args, key) ==
    CASE key = "ef_search" -> args.ef_search
      [] key = "filter" -> args.filter_expr
      [] key = "sparse_vector" -> args.sparse_vector

\* C8: search_vectors without ef_search, filter_expr and sparse_vector sends a
\* body with the keys vector and k only (k = 10 when not given); no key of a
\* search body is null, and an optional key that is present has the caller's value.
C8_SearchBodyHasNoNulls ==
    (Returned /\ call.op = "search_vectors") =>
        LET data == request.json.v
            args == call.args
        IN  /\ request.json.py = "dict"
            /\ (/\ args.ef_search = NotGiven
                /\ args.filter_expr = NotGiven
                /\ args.sparse_vector = NotGiven) => DOMAIN data = {"vector", "k"}
            /\ {"vector", "k"} \subseteq DOMAIN data
            /\ data["vector"] = args.vector
            /\ data["k"] = (IF args.k = NotGiven THEN [py |-> "int", v |-> 10] ELSE args.k)
            /\ \A key \in DOMAIN data : data[key].py \notin {"None", "NotGiven"}
            /\ \A key \in DOMAIN data \cap SearchOptionalKeys :
                   data[key] = SearchArgument(args, key)

C8_Witness ==
    /\ Returned
    /\ call.op = "search_vectors"
    /\ call.args.k = NotGiven
    /\ call.args.ef_search = NotGiven
    /\ call.args.filter_expr = NotGiven
    /\ call.args.sparse_vector = NotGiven
    /\ DOMAIN request.json.v = {"vector", "k"}
    /\ request.json.v["k"].v = 10

\* The value of a create_index body field: the argument, or the documented default.
GivenOr(arg, py, default) == IF arg = NotGiven THEN [py |-> py, v |-> default] ELSE arg

\* C9: create_index sends a POST to /api/v1/index/create whose body always has
\* the seven fields, each the caller's argument when given and otherwise its
\* default: space_type "l2", ef_construction 200, m 16, quant_type "none",
\* enable_sparse false.
C9_CreateIndexBodyDefaults ==
    (Returned /\ call.op = "create_index") =>
        LET data == request.json.v
            args == call.args
        IN  /\ request.method = "POST"
            /\ request.url = base_url \o <<"/", "api", "/", "v1", "/", "index", "/", "create">>
            /\ DOMAIN data = {"index_name", "dim", "space_type", "ef_construction", "m",
                              "quant_type", "enable_sparse"}
            /\ data["index_name"].v = args.index_name
            /\ data["dim"] = args.dim
            /\ data["space_type"] = GivenOr(args.space_type, "str", "l2")
            /\ data["ef_construction"] = GivenOr(args.ef_construction, "int", 200)
            /\ data["m"] = GivenOr(args.m, "int", 16)
            /\ data["quant_type"] = GivenOr(args.quant_type, "str", "none")
            /\ data["enable_sparse"] = GivenOr(args.enable_sparse, "bool", FALSE)

C9_Witness ==
    /\ Returned
    /\ call.op = "create_index"
    /\ call.args.index_name = <<"idx">>
    /\ call.args.dim.v = 128
    /\ call.args.space_type.py = "str"
    /\ call.args.space_type.v = "cosine"
    /\ call.args.ef_construction = NotGiven
    /\ call.args.m = NotGiven
    /\ call.args.quant_type = NotGiven
    /\ call.args.enable_sparse = NotGiven
    /\ request.json.v["dim"].v = 128
    /\ request.json.v["space_type"].v = "cosine"
    /\ request.json.v["ef_construction"].v = 200
    /\ request.json.v["m"].v = 16
    /\ request.json.v["quant_type"].v = "none"
    /\ request.json.v["enable_sparse"].v = FALSE

\* C10: every invocation of a public method hands exactly one request to the
\* session, whatever its outcome, and no other step sends one.
C10_OneRequestPerInvocation ==
    [][nrequests' = nrequests + (IF ncalls' # ncalls THEN 1 ELSE 0)]_vars

C10_Witness ==
    /\ Returned
    /\ ncalls = 2
    /\ nrequests = 2
    /\ outcome.kind = "EndeeConnectionError"

\* C11: leaving a `with EndeeClient(...)` block releases the session, on a
\* normal exit and when the block raises; an exception raised in the block goes
\* on to the caller; and close() called again afterwards returns normally, as
\* every close() does.
C11_WithBlockReleasesAndPropagates ==
    /\ scope = "left" =>
          /\ close_calls >= 1
          /\ with_exit.exc.py # "None" =>
                 with_exit = [kind |-> "propagated", exc |-> with_exit.exc]
          /\ with_exit.exc.py = "None" => with_exit.kind = "completed"
    /\ close_calls >= 1 =>
          close_outcome = [kind |-> "return", value |-> [py |-> "None"]]

C11_Witness ==
    /\ scope = "left"
    /\ with_exit.kind = "propagated"
    /\ with_exit.exc.v = "KeyError"
    /\ close_calls = 2
    /\ close_outcome.kind = "return"

\* C12: a method ends with EndeeConnectionError only when no HTTP response was
\* received; with a response, it returns for a status < 400 and raises
\* EndeeAPIError for a status >= 400 (so a body that is no JSON under a status
\* < 400 is not reported as EndeeConnectionError).
C12_ConnectionErrorOnlyWithoutResponse ==
    Returned =>
        /\ outcome.kind = "EndeeConnectionError" => response.kind = "RequestException"
        /\ response.kind = "http" =>
               outcome.kind = (IF response.status_code < 400
                               THEN "return"
                               ELSE "EndeeAPIError")

\* C13: in the search body each optional key is present exactly when the
\* caller's argument is not None (so ef_search=0, filter_expr="" and
\* sparse_vector={} are sent), and it carries the argument unchanged, the
\* filter expression under the key "filter".
C13_OptionalKeyIffNotNone ==
    (Returned /\ call.op = "search_vectors") =>
        \A key \in SearchOptionalKeys :
            LET arg == SearchArgument(call.args, key)
                supplied == arg.py \notin {"None", "NotGiven"}
            IN  /\ (key \in DOMAIN request.json.v) <=> supplied
                /\ supplied => request.json.v[key] = arg

\* The HTTP verb of a method.
Verb(op) ==
    CASE op \in {"health_check", "get_stats", "list_indexes", "get_index_info",
                 "list_backups"} -> "GET"
      [] op \in {"delete_index", "delete_vector", "delete_backup"} -> "DELETE"
      [] OTHER -> "POST"

\* The path of a call, from its arguments alone.
PathOf(c) ==
    LET index == <<"/", "api", "/", "v1", "/", "index", "/">>
        backups == <<"/", "api", "/", "v1", "/", "backups">>
    IN  CASE c.op = "health_check" -> <<"/", "api", "/", "v1", "/", "health">>
          [] c.op = "get_stats" -> <<"/", "api", "/", "v1", "/", "stats">>
          [] c.op = "create_index" -> index \o <<"create">>
          [] c.op = "list_indexes" -> index \o <<"list">>
          [] c.op = "get_index_info" -> index \o c.args.index_name \o <<"/", "info">>
          [] c.op = "delete_index" -> index \o c.args.index_name \o <<"/", "delete">>
          [] c.op = "insert_vectors" ->
               index \o c.args.index_name \o <<"/", "vector", "/", "insert">>
          [] c.op = "search_vectors" -> index \o c.args.index_name \o <<"/", "search">>
          [] c.op = "get_vector" ->
               index \o c.args.index_name \o <<"/", "vector", "/", "get">>
          [] c.op = "delete_vector" ->
               index \o c.args.index_name \o <<"/", "vector", "/">> \o c.args.vector_id
                     \o <<"/", "delete">>
          [] c.op = "delete_vectors" ->
               index \o c.args.index_name \o <<"/", "vectors", "/", "delete">>
          [] c.op = "update_filters" ->
               index \o c.args.index_name \o <<"/", "filters", "/", "update">>
          [] c.op = "create_backup" -> index \o c.args.index_name \o <<"/", "backup">>
          [] c.op = "list_backups" -> backups
          [] c.op = "restore_backup" ->
               backups \o <<"/">> \o c.args.backup_name \o <<"/", "restore">>
          [] c.op = "delete_backup" -> backups \o <<"/">> \o c.args.backup_name

\* The JSON body of a call, from its arguments alone.
BodyOf(c) ==
    CASE c.op = "create_index" ->
           CreateIndexData(c.args.index_name, c.args.dim, c.args.space_type,
                           c.args.ef_construction, c.args.m, c.args.quant_type,
                           c.args.enable_sparse)
      [] c.op = "search_vectors" ->
           SearchData(c.args.vector, c.args.k, c.args.ef_search, c.args.filter_expr,
                      c.args.sparse_vector)
      [] c.op = "insert_vectors" -> c.args.vectors
      [] c.op = "update_filters" -> c.args.updates
      [] c.op \in {"get_vector", "delete_vectors"} -> [py |-> "dict", v |-> [ids |-> c.args.vector_ids]]
      [] OTHER -> [py |-> "None"]

\* The request of a call, from its arguments and the constructor's alone.
RequestOf(c) ==
    [method  |-> Verb(c.op),
     url     |-> rstrip(ctor.base_url) \o PathOf(c),
     json    |-> BodyOf(c),
     params  |-> [py |-> "None"],
     headers |-> IF ctor.auth_token.py = "str" /\ ctor.auth_token.v # ""
                 THEN [h \in {"Authorization"} |-> ctor.auth_token.v]
                 ELSE <<>>,
     timeout |-> ctor.timeout]

\* C14: no method call, however it ends, and no close() changes base_url,
\* auth_token or timeout: they stay what the constructor made them; and the
\* request a call builds is a function of the call's arguments and the
\* constructor's, whatever calls and responses came before.
C14_ConfigFixedAndRequestStateless ==
    /\ base_url = rstrip(ctor.base_url)
    /\ auth_token = ctor.auth_token
    /\ timeout = ctor.timeout
    /\ Returned => request = RequestOf(call)

C14_Witness ==
    /\ Returned
    /\ ncalls = 2
    /\ close_calls = 1
    /\ outcome.kind = "EndeeAPIError"
    /\ ctor.base_url # base_url
    /\ ctor.auth_token.py = "str"
    /\ request.headers = [h \in {"Authorization"} |-> "secret-token"]
    /\ request.timeout = 5

====
